---- MODULE Spec2Model ----
(***************************************************************************)
(* Model of src/xmpp/bookmark.c (Profanity): the in-memory bookmark table, *)
(* its autocomplete index, the private-storage fetch (bookmark_request /   *)
(* _bookmark_result_id_handler) and the full-replace push                  *)
(* (_send_bookmarks), together with the server and the two directions of   *)
(* the XMPP stream they talk over.                                         *)
(***************************************************************************)
EXTENDS Naturals, Sequences, FiniteSets, TLC

VARIABLES
    allocated,    \* bookmarks != NULL (and bookmark_ac created): set by bookmark_request
    bookmarks,    \* GHashTable* bookmarks: barejid -> Bookmark
    bookmark_ac,  \* Autocomplete bookmark_ac: the items it holds
    id_handlers,  \* iq id handlers registered with iq_id_handler_add
    confservers,  \* domains passed to muc_confserver_add
    outbox,       \* stanzas handed to iq_send_stanza, not yet processed by the server
    inbox,        \* stanzas sent by the server, not yet delivered to the client
    remote,       \* the server's stored bookmark document (children of <storage/>)
    fetches,      \* number of bookmark_request calls so far
    crashed,      \* the process has died (undefined behaviour taken as a crash)
    origin,       \* history: where the minimize flag of each Bookmark of the table came from
    ops,          \* number of bookmark_add / bookmark_update / bookmark_remove calls so far
    last          \* the last client operation: its arguments, its result, what it sent

vars == <<allocated, bookmarks, bookmark_ac, id_handlers, confservers,
          outbox, inbox, remote, fetches, crashed, origin, ops, last>>

----------------------------------------------------------------------------
(* Bounds of the model *)

MaxFetch == 2     \* bookmark_request calls
MaxOps == 2       \* bookmark_add / bookmark_update / bookmark_remove calls
MaxOutbox == 1    \* stanzas in flight towards the server
MaxDoc == 3       \* children of a storage document to decode

----------------------------------------------------------------------------
(* Values *)

NULL == "<null>"

\* char* id = "bookmark_init_request";
BOOKMARK_INIT_ID == "bookmark_init_request"

\* Room addresses used as inputs: one with a localpart, one that is a bare domain.
Jids == {"a@c", "d"}

\* g_hash_table_get_values: the order of the values; the model lists them in this order.
JidOrder == <<"a@c", "d">>

Nicks == {"n"}
Passwords == {"p"}
Names == {"r"}
AutojoinArgs == {"on", "off", "x"}

Opt(S) == S \cup {NULL}

----------------------------------------------------------------------------
(* Collaborators the file calls *)

\* jid_create: the localpart and domainpart of a room address (NULL when absent).
jid_create(jid) ==
    CASE jid = "a@c" -> [localpart |-> "a", domainpart |-> "c"]
      [] jid = "d"   -> [localpart |-> NULL, domainpart |-> "d"]

\* muc_confserver_add(jidp->domainpart), guarded by if (jidp->domainpart)
confserver_add(conf, jid) ==
    IF jid_create(jid).domainpart # NULL
    THEN conf \cup {jid_create(jid).domainpart}
    ELSE conf

\* autocomplete_add / autocomplete_remove on an Autocomplete that holds each item once;
\* on a NULL Autocomplete both do nothing.
autocomplete_add(alloc, ac, item) == IF alloc THEN ac \cup {item} ELSE ac
autocomplete_remove(alloc, ac, item) == IF alloc THEN ac \ {item} ELSE ac

\* GLib on a NULL table: g_hash_table_contains and g_hash_table_lookup answer
\* FALSE / NULL, g_hash_table_insert and g_hash_table_remove do nothing,
\* g_hash_table_get_values answers the empty list.
g_hash_table_contains(alloc, tab, key) == alloc /\ key \in DOMAIN tab
g_hash_table_insert(alloc, tab, key, value) ==
    IF alloc
    THEN [k \in DOMAIN tab \cup {key} |-> IF k = key THEN value ELSE tab[k]]
    ELSE tab
g_hash_table_remove(alloc, tab, key) ==
    IF alloc THEN [k \in DOMAIN tab \ {key} |-> tab[k]] ELSE tab
g_hash_table_get_values(alloc, tab) ==
    IF alloc
    THEN LET keys == SelectSeq(JidOrder, LAMBDA j : j \in DOMAIN tab)
         IN  [i \in 1..Len(keys) |-> tab[keys[i]]]
    ELSE <<>>

EmptyTable == [k \in {} |-> NULL]

----------------------------------------------------------------------------
(* Encoding: _send_bookmarks *)

\* encode_conference that writes every minimize other than 1 as "false".
encode_conference_unset_as_false(b) ==
    [ elem     |-> "conference",
      jid      |-> b.barejid,
      name     |-> IF b.name # NULL THEN b.name
                   ELSE IF jid_create(b.barejid).localpart # NULL
                        THEN jid_create(b.barejid).localpart
                        ELSE NULL,
      autojoin |-> IF b.autojoin THEN "true" ELSE "false",
      nick     |-> b.nick,
      password |-> b.password,
      minimize |-> IF b.ext_gajim_minimize = 1 THEN "true" ELSE "false" ]

\* One <conference/> of the push, built from one Bookmark.  A field of the
\* element that is NULL is an attribute or child that is not there.
encode_conference(b) ==
    [ elem     |-> "conference",
      jid      |-> b.barejid,
      name     |-> IF b.name # NULL THEN b.name
                   ELSE IF jid_create(b.barejid).localpart # NULL
                        THEN jid_create(b.barejid).localpart
                        ELSE NULL,
      autojoin |-> IF b.autojoin THEN "true" ELSE "false",
      nick     |-> b.nick,
      password |-> b.password,
      minimize |-> IF b.ext_gajim_minimize = 1 THEN "true"
                   ELSE IF b.ext_gajim_minimize = 2 THEN "false"
                   ELSE NULL ]

\* The iq of type set that _send_bookmarks hands to iq_send_stanza: a query
\* holding a storage holding one conference for each value of the table.
\* connection_create_stanza_id gives it an id of its own.
_send_bookmarks(alloc, tab) ==
    LET values == g_hash_table_get_values(alloc, tab)
    IN  [ name     |-> "iq",
          type     |-> "set",
          id       |-> "push",
          query    |-> TRUE,
          storage  |-> TRUE,
          children |-> [i \in 1..Len(values) |-> encode_conference(values[i])],
          fetch    |-> 0 ]

----------------------------------------------------------------------------
(* Decoding: _bookmark_result_id_handler *)

\* strcmp(min_str, ...) on the text of the minimize child.  A child with no
\* text gives min_str = NULL, and strcmp on it is undefined: ub is what the
\* build makes of it, "crash" or a value of minimize.
UBOutcomes == {"crash", "0", "1", "2"}

minimize_of(child, ub) ==
    IF child.minimize = NULL THEN "0"
    ELSE IF child.minimize = "" THEN ub
    ELSE IF child.minimize = "true" THEN "1"
    ELSE IF child.minimize = "false" THEN "2"
    ELSE "0"

MinimizeValue(m) == IF m = "1" THEN 1 ELSE IF m = "2" THEN 2 ELSE 0

\* decode_conference that takes only autojoin="1" as true.
decode_conference_autojoin_1(child, ub) ==
    [ barejid  |-> child.jid,
      nick     |-> child.nick,
      password |-> child.password,
      name     |-> child.name,
      autojoin |-> (child.autojoin # NULL /\ child.autojoin = "1"),
      ext_gajim_minimize |-> MinimizeValue(minimize_of(child, ub)) ]

\* The Bookmark built from one <conference/> that has a jid attribute.
decode_conference(child, ub) ==
    [ barejid  |-> child.jid,
      nick     |-> child.nick,
      password |-> child.password,
      name     |-> child.name,
      autojoin |-> (child.autojoin # NULL
                    /\ (child.autojoin = "1" \/ child.autojoin = "true")),
      ext_gajim_minimize |-> MinimizeValue(minimize_of(child, ub)) ]

\* sv_ev_bookmark_autojoin(bookmark), called with the table tab: the
\* Bookmark, and whether the table holds it under its address at that moment.
Autojoin(bookmark, alloc, tab) ==
    [ bookmark |-> bookmark,
      stored   |-> /\ g_hash_table_contains(alloc, tab, bookmark.barejid)
                   /\ tab[bookmark.barejid] = bookmark ]

\* One pass of the while loop over the children of <storage/>, on the
\* state s = [alloc, tab, ac, conf, origin, auto, crashed] of the handler.
\* The autocomplete is there by then (if (bookmark_ac == NULL) bookmark_ac = autocomplete_new()).
decode_child(s, child, ub) ==
    IF s.crashed THEN s
    ELSE IF child.elem # "conference" THEN s
    ELSE IF child.jid = NULL THEN s
    ELSE IF minimize_of(child, ub) = "crash" THEN [s EXCEPT !.crashed = TRUE]
    ELSE LET bookmark == decode_conference(child, ub)
             tab == g_hash_table_insert(s.alloc, s.tab, child.jid, bookmark)
         IN  [ alloc   |-> s.alloc,
               tab     |-> tab,
               ac      |-> autocomplete_add(TRUE, s.ac, child.jid),
               conf    |-> confserver_add(s.conf, child.jid),
               origin  |-> g_hash_table_insert(s.alloc, s.origin, child.jid,
                                               child.minimize),
               auto    |-> IF bookmark.autojoin
                           THEN Append(s.auto, Autojoin(bookmark, s.alloc, tab))
                           ELSE s.auto,
               crashed |-> FALSE ]

RECURSIVE decode_children(_, _, _)
decode_children(s, children, ub) ==
    IF children = <<>> THEN s
    ELSE decode_children(decode_child(s, Head(children), ub), Tail(children), ub)

\* _bookmark_result_id_handler without the test for the storage element.
_bookmark_result_id_handler_any_query(s, stanza, ub) ==
    IF stanza.name # "iq" THEN s
    ELSE IF ~stanza.query THEN s
    ELSE decode_children(s, stanza.children, ub)

\* The handler on a stanza: nothing unless it is an iq with a query holding a storage.
_bookmark_result_id_handler(s, stanza, ub) ==
    IF stanza.name # "iq" THEN s
    ELSE IF ~stanza.query THEN s
    ELSE IF ~stanza.storage THEN s
    ELSE decode_children(s, stanza.children, ub)

\* A stanza the handler returns from before it looks at the children.
Rejected(stanza) == stanza.name # "iq" \/ ~stanza.query \/ ~stanza.storage

\* handler_returns that keeps the handler registered after a stanza it rejects.
handler_returns_1_when_rejected(stanza) == IF Rejected(stanza) THEN 1 ELSE 0

\* The value the handler returns (return 0 at each of its exits); the iq
\* layer keeps an id handler that returns non-zero and removes one that returns 0.
handler_returns(stanza) == 0

----------------------------------------------------------------------------
(* The public operations, as functions of the module's state                *)
(* s = [alloc, tab, ac, conf, origin]; each answers                        *)
(* [ret, tab, ac, conf, origin, sent], sent being the stanzas handed to    *)
(* iq_send_stanza, in order.  origin is history, not program state: for    *)
(* each key of the table, "add" or the minimize text the Bookmark was       *)
(* decoded from.                                                           *)

\* The Bookmark bookmark_add allocates and fills.
new_bookmark(jid, nick, password, autojoin_str, name) ==
    [ barejid  |-> jid,
      nick     |-> nick,
      password |-> password,
      name     |-> name,
      autojoin |-> (autojoin_str = "on"),
      ext_gajim_minimize |-> 0 ]

\* add_effect with the push built before the insert.
add_effect_push_first(s, jid, nick, password, autojoin_str, name) ==
    LET conf == confserver_add(s.conf, jid)
    IN  IF g_hash_table_contains(s.alloc, s.tab, jid)
        THEN [ret |-> FALSE, tab |-> s.tab, ac |-> s.ac, conf |-> conf,
              origin |-> s.origin, sent |-> <<>>]
        ELSE LET bookmark == new_bookmark(jid, nick, password, autojoin_str, name)
             IN  [ret |-> TRUE,
                  tab |-> g_hash_table_insert(s.alloc, s.tab, jid, bookmark),
                  ac |-> autocomplete_add(s.alloc, s.ac, jid), conf |-> conf,
                  origin |-> g_hash_table_insert(s.alloc, s.origin, jid, "add"),
                  sent |-> <<_send_bookmarks(s.alloc, s.tab)>>]

\* add_effect without the g_hash_table_contains test: the insert replaces.
add_effect_replaces(s, jid, nick, password, autojoin_str, name) ==
    LET bookmark == new_bookmark(jid, nick, password, autojoin_str, name)
        tab == g_hash_table_insert(s.alloc, s.tab, jid, bookmark)
    IN  [ret |-> ~g_hash_table_contains(s.alloc, s.tab, jid),
         tab |-> tab,
         ac |-> autocomplete_add(s.alloc, s.ac, jid),
         conf |-> confserver_add(s.conf, jid),
         origin |-> g_hash_table_insert(s.alloc, s.origin, jid, "add"),
         sent |-> IF g_hash_table_contains(s.alloc, s.tab, jid) THEN <<>>
                  ELSE <<_send_bookmarks(s.alloc, tab)>>]

add_effect(s, jid, nick, password, autojoin_str, name) ==
    LET conf == confserver_add(s.conf, jid)
    IN  IF g_hash_table_contains(s.alloc, s.tab, jid)
        THEN [ret |-> FALSE, tab |-> s.tab, ac |-> s.ac, conf |-> conf,
              origin |-> s.origin, sent |-> <<>>]
        ELSE LET bookmark == new_bookmark(jid, nick, password, autojoin_str, name)
                 tab == g_hash_table_insert(s.alloc, s.tab, jid, bookmark)
                 ac == autocomplete_add(s.alloc, s.ac, jid)
             IN  [ret |-> TRUE, tab |-> tab, ac |-> ac, conf |-> conf,
                  origin |-> g_hash_table_insert(s.alloc, s.origin, jid, "add"),
                  sent |-> <<_send_bookmarks(s.alloc, tab)>>]

\* update_fields that assigns the password argument whether or not it is given.
update_fields_sets_password(b, nick, password, autojoin_str, name) ==
    [ barejid  |-> b.barejid,
      nick     |-> IF nick # NULL THEN nick ELSE b.nick,
      password |-> password,
      name     |-> IF name # NULL THEN name ELSE b.name,
      autojoin |-> IF autojoin_str # NULL
                   THEN IF autojoin_str = "on" THEN TRUE
                        ELSE IF autojoin_str = "off" THEN FALSE
                        ELSE b.autojoin
                   ELSE b.autojoin,
      ext_gajim_minimize |-> b.ext_gajim_minimize ]

\* update_fields that takes every autojoin_str other than "on" as "off".
update_fields_autojoin_else_off(b, nick, password, autojoin_str, name) ==
    [ barejid  |-> b.barejid,
      nick     |-> IF nick # NULL THEN nick ELSE b.nick,
      password |-> IF password # NULL THEN password ELSE b.password,
      name     |-> IF name # NULL THEN name ELSE b.name,
      autojoin |-> IF autojoin_str # NULL
                   THEN autojoin_str = "on"
                   ELSE b.autojoin,
      ext_gajim_minimize |-> b.ext_gajim_minimize ]

\* The fields of an existing Bookmark after bookmark_update's assignments.
update_fields(b, nick, password, autojoin_str, name) ==
    [ barejid  |-> b.barejid,
      nick     |-> IF nick # NULL THEN nick ELSE b.nick,
      password |-> IF password # NULL THEN password ELSE b.password,
      name     |-> IF name # NULL THEN name ELSE b.name,
      autojoin |-> IF autojoin_str # NULL
                   THEN IF autojoin_str = "on" THEN TRUE
                        ELSE IF autojoin_str = "off" THEN FALSE
                        ELSE b.autojoin
                   ELSE b.autojoin,
      ext_gajim_minimize |-> b.ext_gajim_minimize ]

update_effect(s, jid, nick, password, autojoin_str, name) ==
    IF ~g_hash_table_contains(s.alloc, s.tab, jid)
    THEN [ret |-> FALSE, tab |-> s.tab, ac |-> s.ac, conf |-> s.conf,
          origin |-> s.origin, sent |-> <<>>]
    ELSE LET tab == [s.tab EXCEPT
                       ![jid] = update_fields(@, nick, password, autojoin_str, name)]
         IN  [ret |-> TRUE, tab |-> tab, ac |-> s.ac, conf |-> s.conf,
              origin |-> s.origin,
              sent |-> <<_send_bookmarks(s.alloc, tab)>>]

\* remove_effect without the lookup: it removes, pushes and returns TRUE.
remove_effect_without_lookup(s, jid) ==
    LET tab == g_hash_table_remove(s.alloc, s.tab, jid)
        ac == autocomplete_remove(s.alloc, s.ac, jid)
    IN  [ret |-> TRUE, tab |-> tab, ac |-> ac, conf |-> s.conf,
         origin |-> g_hash_table_remove(s.alloc, s.origin, jid),
         sent |-> <<_send_bookmarks(s.alloc, tab)>>]

\* remove_effect without the autocomplete_remove.
remove_effect_keeps_item(s, jid) ==
    IF ~g_hash_table_contains(s.alloc, s.tab, jid)
    THEN [ret |-> FALSE, tab |-> s.tab, ac |-> s.ac, conf |-> s.conf,
          origin |-> s.origin, sent |-> <<>>]
    ELSE LET tab == g_hash_table_remove(s.alloc, s.tab, jid)
         IN  [ret |-> TRUE, tab |-> tab, ac |-> s.ac, conf |-> s.conf,
              origin |-> g_hash_table_remove(s.alloc, s.origin, jid),
              sent |-> <<_send_bookmarks(s.alloc, tab)>>]

remove_effect(s, jid) ==
    IF ~g_hash_table_contains(s.alloc, s.tab, jid)
    THEN [ret |-> FALSE, tab |-> s.tab, ac |-> s.ac, conf |-> s.conf,
          origin |-> s.origin, sent |-> <<>>]
    ELSE LET tab == g_hash_table_remove(s.alloc, s.tab, jid)
             ac == autocomplete_remove(s.alloc, s.ac, jid)
         IN  [ret |-> TRUE, tab |-> tab, ac |-> ac, conf |-> s.conf,
              origin |-> g_hash_table_remove(s.alloc, s.origin, jid),
              sent |-> <<_send_bookmarks(s.alloc, tab)>>]

\* The iq of type get that bookmark_request sends
\* (stanza_create_bookmarks_storage_request, with the id set on it).  fetch
\* tells which call sent it; it is not on the wire.
storage_request(n) ==
    [ name |-> "iq", type |-> "get", id |-> BOOKMARK_INIT_ID, query |-> TRUE,
      storage |-> TRUE, children |-> <<>>, fetch |-> n ]

----------------------------------------------------------------------------
(* bookmark_join and the operations that only read.  Each answers          *)
(* [ret, tab, ac, sent, calls]: calls are the calls made on the presence,  *)
(* muc, iq and ui modules, in order, each <<function, arguments...>>.      *)
(* env = [active, roster_complete, muc_nick] is what muc_active and        *)
(* muc_roster_complete answer for the room and the muc_nick of the account.*)

g_hash_table_lookup(alloc, tab, key) ==
    IF g_hash_table_contains(alloc, tab, key) THEN {tab[key]} ELSE {}

\* The calls of bookmark_join on a Bookmark it found.
join_calls(bookmark, nick, env) ==
    IF ~env.active
    THEN << <<"presence_join_room", bookmark.barejid, nick, bookmark.password>>,
            <<"muc_join", bookmark.barejid, nick, bookmark.password, "FALSE">>,
            <<"iq_room_affiliation_list", bookmark.barejid, "member", "false">>,
            <<"iq_room_affiliation_list", bookmark.barejid, "admin", "false">>,
            <<"iq_room_affiliation_list", bookmark.barejid, "owner", "false">> >>
    ELSE IF env.roster_complete
         THEN << <<"ui_room_join", bookmark.barejid, "TRUE">> >>
         ELSE <<>>

\* join_effect that joins with the nick of the Bookmark even when it has none.
join_effect_no_account_nick(s, jid, env) ==
    IF g_hash_table_lookup(s.alloc, s.tab, jid) = {}
    THEN [ret |-> FALSE, tab |-> s.tab, ac |-> s.ac, sent |-> <<>>, calls |-> <<>>]
    ELSE LET bookmark == s.tab[jid]
         IN  [ret |-> TRUE, tab |-> s.tab, ac |-> s.ac, sent |-> <<>>,
              calls |-> join_calls(bookmark, bookmark.nick, env)]

\* join_effect that pushes the bookmarks after a join.
join_effect_sends_bookmarks(s, jid, env) ==
    IF g_hash_table_lookup(s.alloc, s.tab, jid) = {}
    THEN [ret |-> FALSE, tab |-> s.tab, ac |-> s.ac, sent |-> <<>>, calls |-> <<>>]
    ELSE LET bookmark == s.tab[jid]
             nick == IF bookmark.nick = NULL THEN env.muc_nick ELSE bookmark.nick
         IN  [ret |-> TRUE, tab |-> s.tab, ac |-> s.ac,
              sent |-> <<_send_bookmarks(s.alloc, s.tab)>>,
              calls |-> join_calls(bookmark, nick, env)]

join_effect(s, jid, env) ==
    IF g_hash_table_lookup(s.alloc, s.tab, jid) = {}
    THEN [ret |-> FALSE, tab |-> s.tab, ac |-> s.ac, sent |-> <<>>, calls |-> <<>>]
    ELSE LET bookmark == s.tab[jid]
             nick == IF bookmark.nick = NULL THEN env.muc_nick ELSE bookmark.nick
         IN  [ret |-> TRUE, tab |-> s.tab, ac |-> s.ac, sent |-> <<>>,
              calls |-> join_calls(bookmark, nick, env)]

\* bookmark_get_by_jid: the Bookmark found, as a set of at most one.
get_by_jid_effect(s, jid) ==
    [ret |-> g_hash_table_lookup(s.alloc, s.tab, jid), tab |-> s.tab, ac |-> s.ac,
     sent |-> <<>>, calls |-> <<>>]

\* bookmark_get_list
get_list_effect(s) ==
    [ret |-> g_hash_table_get_values(s.alloc, s.tab), tab |-> s.tab, ac |-> s.ac,
     sent |-> <<>>, calls |-> <<>>]

\* bookmark_exists
exists_effect(s, room) ==
    [ret |-> g_hash_table_contains(s.alloc, s.tab, room), tab |-> s.tab,
     ac |-> s.ac, sent |-> <<>>, calls |-> <<>>]

\* The search strings of bookmark_find and the items each is a prefix of.
SearchStrs == {"", "a", "x"}
Completes(search_str, item) ==
    \/ search_str = ""
    \/ search_str = "a" /\ item = "a@c"

\* autocomplete_complete: one of the items the search string is a prefix of
\* (which one is up to the cursor of the Autocomplete), NULL when there is none.
autocomplete_complete(ac, search_str) ==
    IF {i \in ac : Completes(search_str, i)} = {} THEN {NULL}
    ELSE {i \in ac : Completes(search_str, i)}

\* bookmark_find answering found, one of the answers of autocomplete_complete.
find_effect(s, search_str, found) ==
    [ret |-> found, tab |-> s.tab, ac |-> s.ac, sent |-> <<>>, calls |-> <<>>]

\* bookmark_autocomplete_reset: autocomplete_reset moves the cursor, not the items.
autocomplete_reset_effect(s) ==
    [ret |-> NULL, tab |-> s.tab, ac |-> s.ac, sent |-> <<>>, calls |-> <<>>]

----------------------------------------------------------------------------
(* Inputs *)

Conference(jid, name, autojoin, nick, password, minimize) ==
    [ elem |-> "conference", jid |-> jid, name |-> name, autojoin |-> autojoin,
      nick |-> nick, password |-> password, minimize |-> minimize ]

\* Children a storage document written by any client can hold: conferences
\* with and without the optional parts, one without a jid, an element that is
\* no conference, minimize children with "true", "false", another text and
\* no text.
SampleChildren ==
    { Conference("a@c", NULL, "1", NULL, NULL, "true"),
      Conference("a@c", "r", "false", "n", "p", NULL),
      Conference("d", NULL, "true", NULL, NULL, "false"),
      Conference("d", "r", "yes", "n", NULL, "maybe"),
      Conference("d", NULL, NULL, NULL, NULL, ""),
      Conference(NULL, "r", "true", "n", NULL, NULL),
      [Conference("a@c", "r", "true", "n", NULL, NULL) EXCEPT !.elem = "other"] }

\* Storage documents the server holds when the session starts.
ServerDocuments ==
    { <<>>,
      << Conference("a@c", NULL, "1", NULL, NULL, "true"),
         Conference("a@c", "r", "false", "n", "p", NULL) >>,
      << Conference(NULL, "r", "true", "n", NULL, NULL),
         Conference("d", NULL, "true", NULL, NULL, "false"),
         [Conference("a@c", "r", "true", "n", NULL, NULL) EXCEPT !.elem = "other"] >>,
      << Conference("d", "r", "yes", "n", NULL, "maybe"),
         Conference("a@c", NULL, NULL, "n", NULL, "true") >>,
      << Conference("d", NULL, NULL, NULL, NULL, ""),
         Conference("a@c", NULL, "1", NULL, NULL, "true") >> }

\* Arguments <<nick, password, autojoin_str, name>> of the calls of a session.
SessionArgs ==
    { <<NULL, NULL, NULL, NULL>>,
      <<"n", "p", "on", "r">>,
      <<"n", NULL, NULL, NULL>> }

\* What the muc module and the account answer to bookmark_join: the room not
\* joined, joined with its roster complete, joined with its roster incomplete.
MucEnvs ==
    { [active |-> FALSE, roster_complete |-> FALSE, muc_nick |-> "m"],
      [active |-> TRUE, roster_complete |-> TRUE, muc_nick |-> "m"],
      [active |-> TRUE, roster_complete |-> FALSE, muc_nick |-> "m"] }

\* Every combination of arguments.
AllArgs == Opt(Nicks) \X Opt(Passwords) \X Opt(AutojoinArgs) \X Opt(Names)

\* Every Bookmark the table can hold under a key, and every table.
Bookmarks(jid) ==
    [ barejid : {jid}, nick : Opt(Nicks), password : Opt(Passwords),
      name : Opt(Names), autojoin : BOOLEAN, ext_gajim_minimize : 0..2 ]

Tables ==
    UNION { { t \in [K -> UNION {Bookmarks(j) : j \in K}] :
                \A j \in K : t[j].barejid = j } : K \in SUBSET Jids }

----------------------------------------------------------------------------
(* The state machine *)

Init ==
    /\ allocated = FALSE
    /\ bookmarks = EmptyTable
    /\ bookmark_ac = {}
    /\ id_handlers = {}
    /\ confservers = {}
    /\ outbox = <<>>
    /\ inbox = <<>>
    /\ remote \in ServerDocuments
    /\ fetches = 0
    /\ crashed = FALSE
    /\ ops = 0
    /\ origin = EmptyTable
    /\ last = [op |-> "init"]

State ==
    [ alloc |-> allocated, tab |-> bookmarks, ac |-> bookmark_ac,
      conf |-> confservers, origin |-> origin ]

\* bookmark_request that makes the table and the autocomplete only when
\* there is none yet.
bookmark_request_keeps_table ==
    /\ ~crashed
    /\ fetches < MaxFetch
    /\ Len(outbox) < MaxOutbox
    /\ allocated' = TRUE
    /\ UNCHANGED <<bookmarks, bookmark_ac, origin>>
    /\ id_handlers' = id_handlers \cup {BOOKMARK_INIT_ID}
    /\ fetches' = fetches + 1
    /\ outbox' = Append(outbox, storage_request(fetches + 1))
    /\ last' = [op |-> "request", before |-> DOMAIN bookmarks,
                sent |-> <<storage_request(fetches + 1)>>]
    /\ UNCHANGED <<confservers, inbox, remote, crashed, ops>>

\* bookmark_request that sends the get a second time.
bookmark_request_sends_again ==
    /\ ~crashed
    /\ fetches < MaxFetch
    /\ Len(outbox) < MaxOutbox
    /\ allocated' = TRUE
    /\ bookmarks' = EmptyTable
    /\ bookmark_ac' = {}
    /\ origin' = EmptyTable
    /\ id_handlers' = id_handlers \cup {BOOKMARK_INIT_ID}
    /\ fetches' = fetches + 1
    /\ outbox' = outbox \o <<storage_request(fetches + 1), storage_request(fetches + 1)>>
    /\ last' = [op |-> "request", before |-> DOMAIN bookmarks,
                sent |-> <<storage_request(fetches + 1), storage_request(fetches + 1)>>]
    /\ UNCHANGED <<confservers, inbox, remote, crashed, ops>>

\* bookmark_request: new empty table and autocomplete, the id handler
\* registered under the fixed id (replacing one registered before), the get
\* sent.  before is history: the keys the table held when it was called.
bookmark_request ==
    /\ ~crashed
    /\ fetches < MaxFetch
    /\ Len(outbox) < MaxOutbox
    /\ allocated' = TRUE
    /\ bookmarks' = EmptyTable
    /\ bookmark_ac' = {}
    /\ origin' = EmptyTable
    /\ id_handlers' = id_handlers \cup {BOOKMARK_INIT_ID}
    /\ fetches' = fetches + 1
    /\ outbox' = Append(outbox, storage_request(fetches + 1))
    /\ last' = [op |-> "request", before |-> DOMAIN bookmarks,
                sent |-> <<storage_request(fetches + 1)>>]
    /\ UNCHANGED <<confservers, inbox, remote, crashed, ops>>

\* What a call of add, update or remove leaves behind, r being its effect.
Apply(r, call) ==
    /\ bookmarks' = r.tab
    /\ bookmark_ac' = r.ac
    /\ confservers' = r.conf
    /\ origin' = r.origin
    /\ outbox' = outbox \o r.sent
    /\ ops' = ops + 1
    /\ last' = [call EXCEPT !.ret = r.ret, !.sent = r.sent]
    /\ UNCHANGED <<allocated, id_handlers, inbox, remote, fetches, crashed>>

Call(op, jid, nick, password, autojoin_str, name) ==
    [ op |-> op, jid |-> jid, nick |-> nick, password |-> password,
      autojoin_str |-> autojoin_str, name |-> name, ret |-> FALSE, sent |-> <<>> ]

bookmark_add(jid, nick, password, autojoin_str, name) ==
    /\ ~crashed
    /\ ops < MaxOps
    /\ Len(outbox) < MaxOutbox
    /\ Apply(add_effect(State, jid, nick, password, autojoin_str, name),
             Call("add", jid, nick, password, autojoin_str, name))

bookmark_update(jid, nick, password, autojoin_str, name) ==
    /\ ~crashed
    /\ ops < MaxOps
    /\ Len(outbox) < MaxOutbox
    /\ Apply(update_effect(State, jid, nick, password, autojoin_str, name),
             Call("update", jid, nick, password, autojoin_str, name))

bookmark_remove(jid) ==
    /\ ~crashed
    /\ ops < MaxOps
    /\ Len(outbox) < MaxOutbox
    /\ Apply(remove_effect(State, jid), Call("remove", jid, NULL, NULL, NULL, NULL))

\* What bookmark_join or an operation that only reads leaves behind.
Read(r, call) ==
    /\ bookmarks' = r.tab
    /\ bookmark_ac' = r.ac
    /\ outbox' = outbox \o r.sent
    /\ last' = [call EXCEPT !.ret = r.ret, !.calls = r.calls, !.sent = r.sent]
    /\ UNCHANGED <<allocated, id_handlers, confservers, inbox, remote, fetches,
                   crashed, origin, ops>>

ReadCall(op, arg, env) ==
    [ op |-> op, arg |-> arg, env |-> env,
      ret |-> FALSE, calls |-> <<>>, sent |-> <<>> ]

bookmark_join(jid, env) ==
    /\ ~crashed
    /\ Read(join_effect(State, jid, env), ReadCall("join", jid, env))

bookmark_get_by_jid(jid) ==
    /\ ~crashed
    /\ Read(get_by_jid_effect(State, jid), ReadCall("get_by_jid", jid, NULL))

bookmark_get_list ==
    /\ ~crashed
    /\ Read(get_list_effect(State), ReadCall("get_list", NULL, NULL))

bookmark_find(search_str) ==
    /\ ~crashed
    /\ \E found \in autocomplete_complete(bookmark_ac, search_str) :
          Read(find_effect(State, search_str, found), ReadCall("find", search_str, NULL))

bookmark_autocomplete_reset ==
    /\ ~crashed
    /\ Read(autocomplete_reset_effect(State), ReadCall("autocomplete_reset", NULL, NULL))

bookmark_exists(room) ==
    /\ ~crashed
    /\ Read(exists_effect(State, room), ReadCall("exists", room, NULL))

\* The server takes the next stanza: a get is answered with the stored
\* document under the same id, a set replaces the stored document.
ServerHandle ==
    /\ outbox # <<>>
    /\ outbox' = Tail(outbox)
    /\ IF Head(outbox).type = "get"
       THEN /\ inbox' = Append(inbox, [Head(outbox) EXCEPT !.type = "result",
                                                            !.children = remote])
            /\ UNCHANGED remote
       ELSE /\ remote' = Head(outbox).children
            /\ UNCHANGED inbox
    /\ UNCHANGED <<allocated, bookmarks, bookmark_ac, id_handlers, confservers,
                   fetches, crashed, ops, origin, last>>

\* The iq layer on the next stanza from the server: the handler registered
\* under its id runs once and is removed (it returns 0); with no handler
\* under the id the stanza is dropped.
Deliver ==
    /\ ~crashed
    /\ inbox # <<>>
    /\ inbox' = Tail(inbox)
    /\ IF Head(inbox).id \in id_handlers
       THEN \E ub \in UBOutcomes :
              LET r == _bookmark_result_id_handler(
                           State @@ [auto |-> <<>>, crashed |-> FALSE],
                           Head(inbox), ub)
              IN  /\ bookmarks' = r.tab
                  /\ bookmark_ac' = r.ac
                  /\ confservers' = r.conf
                  /\ origin' = r.origin
                  /\ crashed' = r.crashed
                  /\ id_handlers' = IF handler_returns(Head(inbox)) = 0
                                     THEN id_handlers \ {Head(inbox).id}
                                     ELSE id_handlers
                  /\ last' = [op |-> "result", stanza |-> Head(inbox),
                              auto |-> r.auto, sent |-> <<>>]
       ELSE /\ last' = [op |-> "dropped", stanza |-> Head(inbox), sent |-> <<>>]
            /\ UNCHANGED <<bookmarks, bookmark_ac, confservers, origin, crashed,
                           id_handlers>>
    /\ UNCHANGED <<allocated, outbox, remote, fetches, ops>>

Next ==
    \/ bookmark_request
    \/ \E jid \in Jids, a \in SessionArgs : bookmark_add(jid, a[1], a[2], a[3], a[4])
    \/ \E jid \in Jids, a \in SessionArgs : bookmark_update(jid, a[1], a[2], a[3], a[4])
    \/ \E jid \in Jids : bookmark_remove(jid)
    \/ ServerHandle
    \/ Deliver

Spec == Init /\ [][Next]_vars

----------------------------------------------------------------------------
(* One call on any table: the session is in step with the server (every    *)
(* push applied, no fetch outstanding) and holds any table; one call of    *)
(* add, update or remove with any arguments follows, and the server takes  *)
(* its push.                                                               *)

InitOps ==
    /\ allocated = TRUE
    /\ bookmarks \in Tables
    /\ bookmark_ac = DOMAIN bookmarks
    /\ id_handlers = {}
    /\ confservers = {jid_create(j).domainpart : j \in DOMAIN bookmarks}
    /\ outbox = <<>>
    /\ inbox = <<>>
    /\ remote = _send_bookmarks(allocated, bookmarks).children
    /\ fetches = 1
    /\ crashed = FALSE
    /\ ops = 0
    /\ origin = [j \in DOMAIN bookmarks |->
                   IF bookmarks[j].ext_gajim_minimize = 1 THEN "true"
                   ELSE IF bookmarks[j].ext_gajim_minimize = 2 THEN "false"
                   ELSE "add"]
    /\ last = [op |-> "init"]

NextOps ==
    \/ \E jid \in Jids, a \in AllArgs :
          ops = 0 /\ bookmark_add(jid, a[1], a[2], a[3], a[4])
    \/ \E jid \in Jids, a \in AllArgs :
          ops = 0 /\ bookmark_update(jid, a[1], a[2], a[3], a[4])
    \/ \E jid \in Jids : ops = 0 /\ bookmark_remove(jid)
    \/ ServerHandle

SpecOps == InitOps /\ [][NextOps]_vars

----------------------------------------------------------------------------
(* One response on any document: bookmark_request has been called and the  *)
(* server has answered it with the document it holds, any sequence of up   *)
(* to MaxDoc of the sample children.  The answer is the iq the server      *)
(* builds or a stanza of another shape under the same id (no iq, no query, *)
(* a query without storage), and a stanza under another id may stand       *)
(* before it.  The stanzas are delivered; bookmark_request may be called   *)
(* again and the server answers it.                                        *)

SeqsUpTo(S, n) == UNION {[1..k -> S] : k \in 0..n}

\* Shapes of the stanza that arrives under the id of the request.
Shapes ==
    { [name |-> "iq", query |-> TRUE, storage |-> TRUE],
      [name |-> "message", query |-> TRUE, storage |-> TRUE],
      [name |-> "iq", query |-> FALSE, storage |-> TRUE],
      [name |-> "iq", query |-> TRUE, storage |-> FALSE] }

\* The stanza of shape sh that answers request n with the children given.
Response(n, sh, children) ==
    [storage_request(n) EXCEPT !.type = "result", !.name = sh.name,
                               !.query = sh.query, !.storage = sh.storage,
                               !.children = children]

\* An iq with a query, a storage and the children given, under the id of a push.
OtherId(children) ==
    [storage_request(0) EXCEPT !.type = "result", !.id = "push",
                               !.children = children]

InitDecode ==
    /\ allocated = TRUE
    /\ bookmarks = EmptyTable
    /\ bookmark_ac = {}
    /\ id_handlers = {BOOKMARK_INIT_ID}
    /\ confservers = {}
    /\ outbox = <<>>
    /\ remote \in SeqsUpTo(SampleChildren, MaxDoc)
    /\ \E sh \in Shapes :
          inbox \in { <<Response(1, sh, remote)>>,
                      <<OtherId(remote), Response(1, sh, remote)>> }
    /\ fetches = 1
    /\ crashed = FALSE
    /\ ops = 0
    /\ origin = EmptyTable
    /\ last = [op |-> "request", before |-> {}, sent |-> <<storage_request(1)>>]

NextDecode ==
    \/ Deliver
    \/ bookmark_request
    \/ ServerHandle

SpecDecode == InitDecode /\ [][NextDecode]_vars

----------------------------------------------------------------------------
(* Every operation of the file in one session: the session of Spec on one  *)
(* document and one choice of arguments, with bookmark_join and the         *)
(* operations that only read called at any point.                          *)

AllDocument ==
    << Conference("a@c", NULL, "1", NULL, NULL, "true"),
       Conference("d", "r", "false", "n", "p", NULL) >>

InitAll ==
    /\ allocated = FALSE
    /\ bookmarks = EmptyTable
    /\ bookmark_ac = {}
    /\ id_handlers = {}
    /\ confservers = {}
    /\ outbox = <<>>
    /\ inbox = <<>>
    /\ remote = AllDocument
    /\ fetches = 0
    /\ crashed = FALSE
    /\ ops = 0
    /\ origin = EmptyTable
    /\ last = [op |-> "init"]

NextAll ==
    \/ bookmark_request
    \/ \E jid \in Jids : bookmark_add(jid, "n", NULL, "on", NULL)
    \/ \E jid \in Jids : bookmark_update(jid, NULL, "p", "off", "r")
    \/ \E jid \in Jids : bookmark_remove(jid)
    \/ ServerHandle
    \/ Deliver
    \/ \E jid \in Jids, env \in MucEnvs : bookmark_join(jid, env)
    \/ \E jid \in Jids : bookmark_get_by_jid(jid)
    \/ bookmark_get_list
    \/ \E search_str \in SearchStrs : bookmark_find(search_str)
    \/ bookmark_autocomplete_reset
    \/ \E room \in Jids : bookmark_exists(room)

SpecAll == InitAll /\ [][NextAll]_vars

----------------------------------------------------------------------------
(* Properties *)

\* The jids of the children the handler stores: conferences with a jid.
ValidJids(children) ==
    { children[i].jid : i \in { k \in 1..Len(children) :
                                  /\ children[k].elem = "conference"
                                  /\ children[k].jid # NULL } }

\* A step that is a call of bookmark_add, bookmark_update or bookmark_remove.
IsCall == ops' = ops + 1

\* C1: in every reachable state the items of the autocomplete are exactly
\* the keys of the bookmark table, whatever requests, responses, adds,
\* updates and removes led there, a response that repeats an address included.
C1_IndexMatchesStore == bookmark_ac = DOMAIN bookmarks

\* A response that names one address in two conferences has been decoded.
C1_Witness ==
    /\ last.op = "result"
    /\ \E i, k \in 1..Len(last.stanza.children) :
          /\ i < k
          /\ last.stanza.children[i].elem = "conference"
          /\ last.stanza.children[k].elem = "conference"
          /\ last.stanza.children[i].jid # NULL
          /\ last.stanza.children[i].jid = last.stanza.children[k].jid
          /\ last.stanza.children[i].jid \in bookmark_ac
    /\ bookmark_ac = DOMAIN bookmarks

\* C2: a call of add, update or remove that returns TRUE hands exactly one
\* stanza to iq_send_stanza, a set whose storage holds exactly one conference
\* for each Bookmark of the table as the call leaves it, encoding that
\* Bookmark; a call that returns FALSE sends nothing.
C2_OnePushAfterMutation ==
    [][ IsCall =>
          IF last'.ret
          THEN \E push \in {last'.sent[i] : i \in 1..Len(last'.sent)} :
                 /\ outbox' = Append(outbox, push)
                 /\ last'.sent = <<push>>
                 /\ push.type = "set"
                 /\ Len(push.children) = Cardinality(DOMAIN bookmarks')
                 /\ \A j \in DOMAIN bookmarks' :
                      \E i \in 1..Len(push.children) :
                         push.children[i] = encode_conference(bookmarks'[j])
          ELSE outbox' = outbox /\ last'.sent = <<>> ]_vars

\* An add to a table that held a Bookmark already has pushed both.
C2_Witness ==
    /\ last.op = "add" /\ last.ret
    /\ Cardinality(DOMAIN bookmarks) = 2
    /\ Len(last.sent) = 1
    /\ Len(last.sent[1].children) = 2

\* C3: the table holds one Bookmark under each key, the one of that address;
\* an add of an address the table holds returns FALSE, changes neither the
\* table nor the autocomplete, and sends nothing.
C3_AddExistingRefused ==
    /\ [](\A j \in DOMAIN bookmarks : bookmarks[j].barejid = j)
    /\ [][ (IsCall /\ last'.op = "add") =>
             /\ last'.ret = ~(allocated /\ last'.jid \in DOMAIN bookmarks)
             /\ (last'.jid \in DOMAIN bookmarks =>
                   /\ bookmarks' = bookmarks
                   /\ bookmark_ac' = bookmark_ac
                   /\ outbox' = outbox
                   /\ last'.sent = <<>>) ]_vars

\* An add of a held address with other fields than the held Bookmark's was refused.
C3_Witness ==
    /\ last.op = "add" /\ ~last.ret
    /\ last.jid \in DOMAIN bookmarks
    /\ bookmarks[last.jid] #
         new_bookmark(last.jid, last.nick, last.password, last.autojoin_str, last.name)

\* C4: an update of a held address sets nick, password and name to the
\* arguments given and keeps those whose argument is NULL, keeps autojoin
\* when its argument is NULL, never changes the minimize flag, the key or
\* any other Bookmark; a Bookmark decoded with minimize "true" and updated
\* with a nick alone is pushed with a minimize child "true".
C4_UpdateKeepsAbsentFields ==
    [][ (IsCall /\ last'.op = "update" /\ last'.ret) =>
          LET jid == last'.jid
              old == bookmarks[jid]
              new == bookmarks'[jid]
          IN  /\ DOMAIN bookmarks' = DOMAIN bookmarks
              /\ \A k \in DOMAIN bookmarks \ {jid} : bookmarks'[k] = bookmarks[k]
              /\ new.barejid = old.barejid
              /\ new.ext_gajim_minimize = old.ext_gajim_minimize
              /\ new.nick = IF last'.nick = NULL THEN old.nick ELSE last'.nick
              /\ new.password =
                   IF last'.password = NULL THEN old.password ELSE last'.password
              /\ new.name = IF last'.name = NULL THEN old.name ELSE last'.name
              /\ (last'.autojoin_str = NULL => new.autojoin = old.autojoin)
              /\ (origin[jid] = "true" =>
                    \E i \in 1..Len(last'.sent[1].children) :
                       /\ last'.sent[1].children[i].jid = jid
                       /\ last'.sent[1].children[i].minimize = "true") ]_vars

\* A Bookmark decoded with minimize "true", holding a password, was updated
\* with a nick alone: the password is still there and the push carries
\* minimize "true".
C4_Witness ==
    /\ last.op = "update" /\ last.ret
    /\ last.nick # NULL /\ last.password = NULL
    /\ last.name = NULL /\ last.autojoin_str = NULL
    /\ origin[last.jid] = "true"
    /\ bookmarks[last.jid].password # NULL
    /\ bookmarks[last.jid].nick = last.nick
    /\ \E i \in 1..Len(last.sent[1].children) :
          /\ last.sent[1].children[i].jid = last.jid
          /\ last.sent[1].children[i].minimize = "true"

\* C5: in the push of a call, a Bookmark made by add, or decoded from a
\* conference with no minimize child, has no minimize child; one decoded
\* from minimize "true" has the child with "true", one decoded from
\* "false" has it with "false".
C5_MinimizeRoundTrip ==
    (last.op \in {"add", "update", "remove"} /\ last.ret) =>
       \A i \in 1..Len(last.sent[1].children) :
          LET c == last.sent[1].children[i]
          IN  /\ c.jid \in DOMAIN origin
              /\ (origin[c.jid] \in {"add", NULL} => c.minimize = NULL)
              /\ (origin[c.jid] = "true" => c.minimize = "true")
              /\ (origin[c.jid] = "false" => c.minimize = "false")

\* A push carries a Bookmark that add made, without a minimize child, beside
\* one decoded from minimize "false", with the child "false".
C5_Witness ==
    /\ last.op \in {"add", "update", "remove"} /\ last.ret
    /\ \E i, k \in 1..Len(last.sent[1].children) :
          /\ origin[last.sent[1].children[i].jid] = "add"
          /\ last.sent[1].children[i].minimize = NULL
          /\ origin[last.sent[1].children[k].jid] = "false"
          /\ last.sent[1].children[k].minimize = "false"

\* The table that decoding a storage document into an empty table gives.
Decoded(children, ub) ==
    _bookmark_result_id_handler(
        [alloc |-> TRUE, tab |-> EmptyTable, ac |-> {}, conf |-> {},
         origin |-> EmptyTable, auto |-> <<>>, crashed |-> FALSE],
        [storage_request(0) EXCEPT !.type = "result", !.children = children],
        ub).tab

\* The name a Bookmark is known by: its name, else the localpart of its address.
NameOrLocalpart(b) ==
    IF b.name # NULL THEN b.name ELSE jid_create(b.barejid).localpart

\* C6: once the server has taken the push of a call, decoding the document
\* it holds into an empty table gives the addresses of the table, each with
\* the nick, password, autojoin and minimize flag of the table's Bookmark and
\* with its name, or the localpart of the address when it has no name (no
\* name when the address has no localpart either).
C6_EncodeDecodeRoundTrip ==
    (last.op \in {"add", "update", "remove"} /\ last.ret /\ outbox = <<>>) =>
       /\ remote = last.sent[1].children
       /\ \A ub \in UBOutcomes :
            LET back == Decoded(remote, ub)
            IN  /\ DOMAIN back = DOMAIN bookmarks
                /\ \A j \in DOMAIN bookmarks :
                     /\ back[j].barejid = bookmarks[j].barejid
                     /\ back[j].nick = bookmarks[j].nick
                     /\ back[j].password = bookmarks[j].password
                     /\ back[j].autojoin = bookmarks[j].autojoin
                     /\ back[j].ext_gajim_minimize = bookmarks[j].ext_gajim_minimize
                     /\ back[j].name = NameOrLocalpart(bookmarks[j])

\* The server holds the push of a table with a Bookmark without name at an
\* address with a localpart, one without name at an address without, an
\* autojoin and a minimize flag set.
C6_Witness ==
    /\ last.op \in {"add", "update", "remove"} /\ last.ret /\ outbox = <<>>
    /\ remote = last.sent[1].children
    /\ DOMAIN bookmarks = {"a@c", "d"}
    /\ bookmarks["a@c"].name = NULL /\ bookmarks["a@c"].autojoin
    /\ bookmarks["d"].name = NULL /\ bookmarks["d"].ext_gajim_minimize = 2
    /\ Decoded(remote, "0")["a@c"].name = "a"
    /\ Decoded(remote, "0")["d"].name = NULL

\* A step in which the iq layer takes the next stanza from the server.
IsDelivery == inbox # <<>> /\ inbox' = Tail(inbox)

\* C7: a response to a bookmark_request that is not the latest one changes
\* neither the table nor the autocomplete and raises no autojoin, and the
\* response to the latest bookmark_request is handed to the handler.
C7_StaleResponseIgnored ==
    [][ IsDelivery =>
          /\ (Head(inbox).fetch < fetches =>
                /\ bookmarks' = bookmarks
                /\ bookmark_ac' = bookmark_ac
                /\ (last'.op = "result" => last'.auto = <<>>))
          /\ (Head(inbox).fetch = fetches => last'.op = "result") ]_vars

\* C8: when the handler has returned from a response, the table is exactly
\* what decoding that response into an empty table gives.
C8_FetchIsFullReplace ==
    (last.op = "result" /\ ~crashed) =>
       \E ub \in UBOutcomes : bookmarks = Decoded(last.stanza.children, ub)

\* Two tables with the same addresses and, at each, the same nick, password,
\* autojoin, minimize flag and name (or localpart for want of a name).
SameRecords(t, u) ==
    /\ DOMAIN t = DOMAIN u
    /\ \A j \in DOMAIN t :
         /\ t[j].nick = u[j].nick
         /\ t[j].password = u[j].password
         /\ t[j].autojoin = u[j].autojoin
         /\ t[j].ext_gajim_minimize = u[j].ext_gajim_minimize
         /\ NameOrLocalpart(t[j]) = NameOrLocalpart(u[j])

\* C9: when a fetch has been made, its response handled, and the server has
\* taken every stanza sent, the document the server holds decodes to the
\* records of the table.
C9_RemoteEqualsLocal ==
    (fetches > 0 /\ outbox = <<>> /\ inbox = <<>> /\ id_handlers = {} /\ ~crashed) =>
       \E ub \in UBOutcomes : SameRecords(Decoded(remote, ub), bookmarks)

\* C10: the handler, run on an iq with a query holding a storage, adds to
\* table and autocomplete the address of every conference that has a jid,
\* wherever it stands among the children, and nothing for the other children.
C10_DecodesEveryValidEntry ==
    [][ (IsDelivery /\ last'.op = "result" /\ ~Rejected(Head(inbox))) =>
          /\ DOMAIN bookmarks' = DOMAIN bookmarks \cup ValidJids(Head(inbox).children)
          /\ bookmark_ac' = bookmark_ac \cup ValidJids(Head(inbox).children) ]_vars

\* C13: update and remove return TRUE exactly when the table holds the
\* address; when it does not they change neither the table nor the
\* autocomplete and send nothing; after a remove that returned TRUE neither
\* the table nor the autocomplete holds the address.
C13_MissingAddressRefused ==
    [][ (IsCall /\ last'.op \in {"update", "remove"}) =>
          /\ last'.ret = (allocated /\ last'.jid \in DOMAIN bookmarks)
          /\ (last'.jid \notin DOMAIN bookmarks =>
                /\ bookmarks' = bookmarks
                /\ bookmark_ac' = bookmark_ac
                /\ outbox' = outbox
                /\ last'.sent = <<>>)
          /\ ((last'.op = "remove" /\ last'.ret) =>
                /\ last'.jid \notin DOMAIN bookmarks'
                /\ last'.jid \notin bookmark_ac') ]_vars

\* A remove of an address the table does not hold, on a table that holds
\* another, returned FALSE and sent nothing.
C13_Witness ==
    /\ last.op = "remove" /\ ~last.ret
    /\ last.jid \notin DOMAIN bookmarks
    /\ bookmarks # EmptyTable
    /\ bookmark_ac = DOMAIN bookmarks
    /\ last.sent = <<>> /\ outbox = <<>>

AutojoinEntries(children) ==
    SelectSeq(children, LAMBDA c : /\ c.elem = "conference"
                                   /\ c.jid # NULL
                                   /\ c.autojoin \in {"1", "true"})

\* C12: the handler, run on an iq with a query holding a storage, raises one
\* autojoin for each conference with a jid whose autojoin is "1" or "true",
\* in their order, with the Bookmark of that conference, the table holding
\* that Bookmark when it is raised; it raises none for any other child.
C12_AutojoinNotifications ==
    [][ (IsDelivery /\ last'.op = "result" /\ ~Rejected(Head(inbox))) =>
          LET want == AutojoinEntries(Head(inbox).children)
          IN  /\ Len(last'.auto) = Len(want)
              /\ \A i \in 1..Len(want) :
                    /\ last'.auto[i].bookmark.barejid = want[i].jid
                    /\ last'.auto[i].bookmark.autojoin
                    /\ last'.auto[i].bookmark.nick = want[i].nick
                    /\ last'.auto[i].bookmark.password = want[i].password
                    /\ last'.auto[i].bookmark.name = want[i].name
                    /\ last'.auto[i].stored ]_vars

\* A step that is a call of bookmark_request.
IsRequest == fetches' = fetches + 1

\* C14: every call of bookmark_request, whatever the table holds and however
\* many calls came before, leaves the table and the autocomplete empty and
\* hands exactly one stanza to iq_send_stanza, an iq of type get with the id
\* "bookmark_init_request".
C14_RequestResetsAndSendsOneGet ==
    [][ IsRequest =>
          /\ bookmarks' = EmptyTable
          /\ bookmark_ac' = {}
          /\ Len(last'.sent) = 1
          /\ outbox' = Append(outbox, last'.sent[1])
          /\ last'.sent[1].name = "iq"
          /\ last'.sent[1].type = "get"
          /\ last'.sent[1].id = "bookmark_init_request" ]_vars

\* bookmark_request was called a second time, the table holding a Bookmark
\* and the answer to the first call not yet delivered.
C14_Witness ==
    /\ last.op = "request" /\ fetches = 2
    /\ last.before # {}
    /\ inbox # <<>>
    /\ bookmarks = EmptyTable /\ bookmark_ac = {}

\* The number of iqs of type get in a queue of stanzas.
Gets(q) == Cardinality({i \in 1..Len(q) : q[i].type = "get"})

\* C15 as stated: a call of bookmark_request leaves the table as it was (the
\* Bookmarks it held stay until an answer replaces them) and sends one get.
C15_DroppedResponseKeepsStore ==
    [][ IsRequest => (bookmarks' = bookmarks /\ Gets(outbox') = Gets(outbox) + 1) ]_vars

\* C15 amended: as long as no answer has been handled since the last call
\* of bookmark_request (its handler is still registered), the table holds
\* only Bookmarks that add put there after that call, none of those it
\* held before; and no step but a call of bookmark_request sends a get, each
\* call sending one.
C15_NoRetryStoreStaysReset ==
    /\ [](BOOKMARK_INIT_ID \in id_handlers =>
            \A j \in DOMAIN bookmarks : origin[j] = "add")
    /\ [][ Gets(outbox') <= Gets(outbox) + (fetches' - fetches) ]_vars
    /\ [][ IsRequest => bookmarks' = EmptyTable ]_vars

\* bookmark_request was called on a table that held a Bookmark; its get is
\* still on its way, no answer is there, and the table is empty.
C15_Witness ==
    /\ last.op = "request"
    /\ last.before # {}
    /\ BOOKMARK_INIT_ID \in id_handlers
    /\ inbox = <<>> /\ Gets(outbox) = 1
    /\ bookmarks = EmptyTable

\* bookmark_join and the operations that only read.
ReadOps == {"join", "get_by_jid", "get_list", "find", "autocomplete_reset", "exists"}

\* A step that is a call of the operation op, one of ReadOps.
IsRead(op) == last'.op = op /\ (last.op # op \/ last' # last)

C17_HandlerIsOneShot ==
    /\ [][ (IsDelivery /\ last'.op = "result") =>
              /\ Head(inbox).id = BOOKMARK_INIT_ID
              /\ BOOKMARK_INIT_ID \in id_handlers
              /\ BOOKMARK_INIT_ID \notin id_handlers' ]_vars
    /\ [][ (IsDelivery /\ Head(inbox).id \notin id_handlers) =>
              /\ last'.op = "dropped"
              /\ bookmarks' = bookmarks
              /\ bookmark_ac' = bookmark_ac
              /\ confservers' = confservers ]_vars
    /\ [][ (BOOKMARK_INIT_ID \in id_handlers' /\ BOOKMARK_INIT_ID \notin id_handlers)
              => IsRequest ]_vars

\* After the handler ran on the answer to the first bookmark_request, the
\* answer to the second, with conferences to decode, found no handler.
C17_Witness ==
    /\ last.op = "dropped"
    /\ last.stanza.id = BOOKMARK_INIT_ID
    /\ last.stanza.fetch = 2 /\ fetches = 2
    /\ ~Rejected(last.stanza)
    /\ ValidJids(last.stanza.children) # {}
    /\ id_handlers = {}

\* The last child of a document that is a conference with the jid given.
LastEntry(children, jid) ==
    children[CHOOSE i \in 1..Len(children) :
               /\ children[i].elem = "conference" /\ children[i].jid = jid
               /\ \A k \in (i + 1)..Len(children) :
                     ~(children[k].elem = "conference" /\ children[k].jid = jid)]

\* C18: the handler, run on an iq with a query holding a storage, ends
\* without a crash and has stored every conference with a jid, its minimize
\* flag 1 for a minimize child "true", 2 for "false", and 0 for a minimize
\* child with any other text or none, or no minimize child.
C18_OtherMinimizeLeavesFlagUnset ==
    [][ (IsDelivery /\ last'.op = "result" /\ ~Rejected(Head(inbox))) =>
          /\ ~crashed'
          /\ \A j \in ValidJids(Head(inbox).children) :
                /\ j \in DOMAIN bookmarks'
                /\ bookmarks'[j].ext_gajim_minimize =
                      LET m == LastEntry(Head(inbox).children, j).minimize
                      IN  IF m = "true" THEN 1 ELSE IF m = "false" THEN 2 ELSE 0 ]_vars

\* The number of iqs of type set in a queue of stanzas.
Sets(q) == Cardinality({i \in 1..Len(q) : q[i].type = "set"})

\* C19: a step that sends a set is a call of add, update or remove that
\* returns TRUE; a step that changes the keys of the table is a call of add
\* or remove, a call of bookmark_request or a run of the handler; a call of
\* bookmark_join, bookmark_get_by_jid, bookmark_get_list, bookmark_find,
\* bookmark_autocomplete_reset or bookmark_exists changes neither the table
\* nor the autocomplete and sends nothing; the delivery of a stanza, with or
\* without a run of the handler, sends nothing.
C19_ReadsChangeNothing ==
    /\ [][ Sets(outbox') > Sets(outbox) =>
              (IsCall /\ last'.op \in {"add", "update", "remove"} /\ last'.ret) ]_vars
    /\ [][ DOMAIN bookmarks' # DOMAIN bookmarks =>
              \/ IsCall /\ last'.op \in {"add", "remove"}
              \/ IsRequest
              \/ IsDelivery /\ last'.op = "result" ]_vars
    /\ [][ (\E op \in ReadOps : IsRead(op)) =>
              /\ bookmarks' = bookmarks
              /\ bookmark_ac' = bookmark_ac
              /\ outbox' = outbox
              /\ last'.sent = <<>> ]_vars
    /\ [][ IsDelivery => outbox' = outbox ]_vars

\* bookmark_join has joined the room of a Bookmark while a push was on its
\* way: the table, the autocomplete and the stanzas sent are as they were.
C19_Witness ==
    /\ last.op = "join" /\ last.ret /\ last.calls # <<>>
    /\ last.sent = <<>>
    /\ Sets(outbox) = 1
    /\ Len(outbox[1].children) = Cardinality(DOMAIN bookmarks)
    /\ bookmark_ac = DOMAIN bookmarks

\* C20: an add that returns TRUE stores autojoin TRUE when autojoin_str is
\* "on" and FALSE for NULL or any other string; an update of a held address
\* returns TRUE, sends one stanza and leaves autojoin TRUE for "on", FALSE
\* for "off" and as it was for NULL or any other string.
C20_AutojoinArgument ==
    [][ /\ (IsCall /\ last'.op = "add" /\ last'.ret) =>
              bookmarks'[last'.jid].autojoin = (last'.autojoin_str = "on")
        /\ (IsCall /\ last'.op = "update" /\ last'.jid \in DOMAIN bookmarks) =>
              /\ last'.ret
              /\ Len(last'.sent) = 1
              /\ bookmarks'[last'.jid].autojoin =
                    IF last'.autojoin_str = "on" THEN TRUE
                    ELSE IF last'.autojoin_str = "off" THEN FALSE
                    ELSE bookmarks[last'.jid].autojoin ]_vars

\* An update with autojoin_str "x" of a Bookmark with autojoin TRUE returned
\* TRUE and sent one stanza, in which the conference still has autojoin "true".
C20_Witness ==
    /\ last.op = "update" /\ last.ret
    /\ last.autojoin_str = "x"
    /\ bookmarks[last.jid].autojoin
    /\ Len(last.sent) = 1
    /\ \E i \in 1..Len(last.sent[1].children) :
          /\ last.sent[1].children[i].jid = last.jid
          /\ last.sent[1].children[i].autojoin = "true"

====
